---- MODULE Spec2Model ----
(***************************************************************************)
(* Model of packages/uberenv-sw4/package.py: the two text emitters of the  *)
(* UberenvSw4 package, create_host_config (the second, effective           *)
(* definition) and makefile_inc, together with the helpers that format the *)
(* lines they write.                                                       *)
(*                                                                         *)
(* A file is the sequence of the strings handed to cfg.write, in order.    *)
(* A statement of an emitter body is an "item": either a text to write or  *)
(* the exception that evaluating its arguments raises; a body is executed  *)
(* up to its first raising item.                                           *)
(***************************************************************************)
EXTENDS Integers, Sequences, FiniteSets, TLC

VARIABLES
    spec,   \* the concretized spack spec handed to the emitters
    env,    \* the build environment: os.environ, hostname, PATH, file system facts
    files,  \* the working directory: file name -> sequence of written strings
    call    \* the emitter call that has just ended (NoCall: none since the environment
            \* last changed): its outcome, the path it returned, the state of the file
            \* handle it opened, and whether the call before it was the same emitter's
VARIABLES
    inst    \* install(): where it stands, and the paths the emitters returned to it

vars == <<spec, env, files, call, inst>>

\* ------------------------------------------------------------------ bounds

\* the cmake versions 3.9 .. 3.MaxMinor are among the versions a spec may hold
MaxMinor == 10

\* ------------------------------------------------------------------ values

\* Python's None; str.format writes it as the text None
None == "None"

\* the spec holds no cmake package: no version
NoDep == << >>
NoPath == "no path"
NoCall == [op |-> "none", outcome |-> "none", path |-> NoPath, handle |-> "none",
           again |-> FALSE]

\* cmake versions as <<major, minor>>: 2.12, 3.9 .. 3.MaxMinor, 4.0
Versions == ({3} \X (9..MaxMinor)) \cup {<<2, 12>>, <<4, 0>>}

Hosts == {"n1"}
Architectures == {"linux"}
SysTypes == {"x-linux"}
Compilers == {"gcc@8.1.0"}

\* the directory install() enters before calling the emitters
working_dir == "/stage/spack-build"

\* the install prefix handed to install()
prefix == "/opt/uberenv-sw4"

\* env["SPACK_DEBUG_LOG_DIR"], which spack sets for every build
debug_log_dir == "/stage/log"

\* install() before its first statement
NotStarted == [pc |-> "start", host_cfg_fname |-> NoPath, make_cfg_fname |-> NoPath]

\* ------------------------------------------------------------------ helpers

\* a statement whose arguments evaluated to the text v
Ok(v) == [ok |-> TRUE, v |-> v]

\* a statement whose evaluation raised the exception kind
Raise(kind) == [ok |-> FALSE, v |-> kind]

join_path(a, b) == a \o "/" \o b

\* the install prefix spack resolved for a dependency
Prefix(dep) == "/opt/" \o dep

\* an attribute of a resolved dependency
DepAttr(dep, attr) ==
    CASE attr = "prefix" -> Prefix(dep)
      [] attr = "prefix.bin" -> join_path(Prefix(dep), "bin")
      [] attr = "command.path" -> join_path(join_path(Prefix(dep), "bin"), dep)
      [] OTHER -> join_path(join_path(Prefix(dep), "bin"), attr)

\* the packages in the spec's dependency graph, from the depends_on declarations
Dependencies(s) ==
    {"proj", "blas", "netlib-lapack", "umpire"}
        \cup (IF s.cuda THEN {"raja"} ELSE {})
        \cup (IF s.mpi THEN {"mpi"} ELSE {})
        \cup (IF s.cmake # NoDep THEN {"cmake"} ELSE {})

\* spec[name].attr where a missing dependency yields None instead of raising
SpecGetLenient(s, name, attr) ==
    IF name \in Dependencies(s) THEN Ok(DepAttr(name, attr)) ELSE Ok(None)

\* spec[name].attr: Spec.__getitem__ raises KeyError for a package not in the spec
SpecGet(s, name, attr) ==
    IF name \in Dependencies(s) THEN Ok(DepAttr(name, attr)) ELSE Raise("KeyError")

\* spec["cmake"].satisfies('@3.10:'): versions compare component by component
Satisfies_3_10(v) == v[1] > 3 \/ (v[1] = 3 /\ v[2] >= 10)

cmake_cache_entry(name, value, vtype) ==
    LET t == IF vtype = None
             THEN (IF value = "ON" \/ value = "OFF" THEN "BOOL" ELSE "PATH")
             ELSE vtype
    IN "set(" \o name \o " \"" \o value \o "\" CACHE " \o t \o "\"\")\n\n"

make_entry(name, value) == name \o " = " \o value \o " \n"

make_lib_entry(value) == " -L " \o value \o "/lib/"

make_inc_entry(value) == " -I" \o value \o "/include/"

\* sys_type = spec.architecture, overridden by the SYS_TYPE environment variable
sys_type(s, e) == IF e.SYS_TYPE # None THEN e.SYS_TYPE ELSE s.architecture

host_cfg_fname(s, e) ==
    e.hostname \o "-" \o sys_type(s, e) \o "-" \o s.compiler \o "-ascent.cmake"

make_cfg_fname(s, e) ==
    "make-" \o e.hostname \o "-" \o sys_type(s, e) \o "-" \o s.compiler \o "-ascent.inc"

abspath(fname) == join_path(working_dir, fname)

\* ------------------------------------------------------------------ files

\* open(fname, "a"): the existing content is kept
open_a(fs, fname) == IF fname \in DOMAIN fs THEN fs ELSE (fname :> <<>>) @@ fs

\* open(fname, "w"): the file is created, or truncated when it exists
open_w(fs, fname) == (fname :> <<>>) @@ fs

\* cfg.write of each text, in order
write(fs, fname, texts) == [fs EXCEPT ![fname] = @ \o texts]

\* index of the first raising item, 0 when none raises
FirstRaise(items) ==
    IF \E i \in DOMAIN items : ~items[i].ok
        THEN CHOOSE i \in DOMAIN items :
                ~items[i].ok /\ \A j \in 1..(i - 1) : items[j].ok
        ELSE 0

\* the texts written before the first raising item
Written(items) ==
    LET k == FirstRaise(items)
        n == IF k = 0 THEN Len(items) ELSE k - 1
    IN [i \in 1..n |-> items[i].v]

\* an emitter body that closes the file and returns its path whatever happened
EmitSwallow(fs, fname, items) ==
    [files |-> write(open_w(fs, fname), fname, Written(items)),
     outcome |-> "returned", path |-> abspath(fname), handle |-> "closed"]

\* open .. write* .. close .. return: an exception leaves the body at once,
\* past cfg.close() and the return
Emit(fs, fname, items) ==
    LET k == FirstRaise(items)
    IN [files |-> write(open_w(fs, fname), fname, Written(items)),
        outcome |-> IF k = 0 THEN "returned" ELSE items[k].v,
        path |-> IF k = 0 THEN abspath(fname) ELSE NoPath,
        handle |-> IF k = 0 THEN "closed" ELSE "open"]

\* a statement cfg.write(fmt(spec[name].attr)): the lookup is evaluated first
LookupThen(g, text) == IF g.ok THEN Ok(text) ELSE g

\* ------------------------------------------------------------------ create_host_config

\* which("cmake"): the executable found on PATH, or None
which_cmake(e) == IF e.cmake_on_path THEN "/usr/bin/cmake" ELSE None

\* "Find and record what CMake is used"
cmake_lookup(s, e) ==
    IF s.cmake_variant
        THEN SpecGet(s, "cmake", "command.path")
        ELSE IF which_cmake(e) = None
                THEN Raise("RuntimeError")
                ELSE Ok(which_cmake(e))

host_config_header(s, e, cmake_exe) ==
    << Ok("##################################\n"),
       Ok("# spack generated host-config\n"),
       Ok("##################################\n"),
       Ok("# " \o sys_type(s, e) \o "-" \o s.compiler \o "\n"),
       Ok("##################################\n\n"),
       Ok("# cmake from spack \n"),
       Ok("# cmake executable path: " \o cmake_exe \o "\n\n"),
       Ok("#######\n"),
       Ok("# using " \o s.compiler \o " compiler spec\n"),
       Ok("#######\n\n"),
       Ok("# c compiler used by spack\n"),
       Ok(cmake_cache_entry("CMAKE_C_COMPILER", e.SPACK_CC, None)),
       Ok("# cpp compiler used by spack\n"),
       Ok(cmake_cache_entry("CMAKE_CXX_COMPILER", e.SPACK_CXX, None)) >>

shared_block(s) ==
    IF s.shared
        THEN << Ok(cmake_cache_entry("BUILD_SHARED_LIBS", "ON", None)) >>
        ELSE << Ok(cmake_cache_entry("BUILD_SHARED_LIBS", "OFF", None)) >>

tests_block(s) ==
    IF s.test
        THEN << Ok(cmake_cache_entry("ENABLE_TESTS", "ON", None)) >>
        ELSE << Ok(cmake_cache_entry("ENABLE_TESTS", "OFF", None)) >>

core_block(s) ==
    LET lapack == SpecGet(s, "netlib-lapack", "prefix")
        blas == SpecGet(s, "blas", "prefix")
        umpire == SpecGet(s, "umpire", "prefix")
    IN << Ok("# conduit from spack \n"),
          LookupThen(lapack, cmake_cache_entry("LAPACK_DIR", lapack.v, None)),
          LookupThen(blas, cmake_cache_entry("BLAS_DIR", blas.v, None)),
          LookupThen(umpire, cmake_cache_entry("UMPIRE_DIR", umpire.v, None)),
          LookupThen(umpire, cmake_cache_entry("UMPIRE_DIR", umpire.v, None)) >>

\* the mpiexec probe, with the os.path.isfile test dropped
mpiexec_probe_unchecked(s, e) ==
    LET bin == SpecGet(s, "mpi", "prefix.bin")
    IN IF ~bin.ok THEN << bin >>
       ELSE IF "cmake" \notin Dependencies(s) THEN << Raise("KeyError") >>
       ELSE IF Satisfies_3_10(s.cmake)
            THEN << Ok(cmake_cache_entry("MPIEXEC_EXECUTABLE",
                                         join_path(bin.v, "mpiexec"), None)) >>
            ELSE << Ok(cmake_cache_entry("MPIEXEC",
                                         join_path(bin.v, "mpiexec"), None)) >>

\* mpiexe_bin = join_path(spec['mpi'].prefix.bin, 'mpiexec') and what follows
mpiexec_probe(s, e) ==
    LET bin == SpecGet(s, "mpi", "prefix.bin")
    IN IF ~bin.ok THEN << bin >>
       ELSE IF ~e.mpiexec_isfile THEN << >>
       ELSE IF "cmake" \notin Dependencies(s) THEN << Raise("KeyError") >>
       ELSE IF Satisfies_3_10(s.cmake)
            THEN << Ok(cmake_cache_entry("MPIEXEC_EXECUTABLE",
                                         join_path(bin.v, "mpiexec"), None)) >>
            ELSE << Ok(cmake_cache_entry("MPIEXEC",
                                         join_path(bin.v, "mpiexec"), None)) >>

\* the MPI block with the value of the else branch mistyped
mpi_block_on(s, e) ==
    LET mpicc == SpecGet(s, "mpi", "mpicc")
        mpicxx == SpecGet(s, "mpi", "mpicxx")
        mpifc == SpecGet(s, "mpi", "mpifc")
    IN << Ok("# MPI Support\n") >> \o
       (IF s.mpi
           THEN << Ok(cmake_cache_entry("ENABLE_MPI", "ON", None)),
                   LookupThen(mpicc, cmake_cache_entry("MPI_C_COMPILER", mpicc.v, None)),
                   LookupThen(mpicxx, cmake_cache_entry("MPI_CXX_COMPILER", mpicxx.v, None)),
                   LookupThen(mpifc, cmake_cache_entry("MPI_Fortran_COMPILER", mpifc.v, None)) >>
                \o mpiexec_probe(s, e)
           ELSE << Ok(cmake_cache_entry("ENABLE_MPI", "ON", None)) >>)

mpi_block(s, e) ==
    LET mpicc == SpecGet(s, "mpi", "mpicc")
        mpicxx == SpecGet(s, "mpi", "mpicxx")
        mpifc == SpecGet(s, "mpi", "mpifc")
    IN << Ok("# MPI Support\n") >> \o
       (IF s.mpi
           THEN << Ok(cmake_cache_entry("ENABLE_MPI", "ON", None)),
                   LookupThen(mpicc, cmake_cache_entry("MPI_C_COMPILER", mpicc.v, None)),
                   LookupThen(mpicxx, cmake_cache_entry("MPI_CXX_COMPILER", mpicxx.v, None)),
                   LookupThen(mpifc, cmake_cache_entry("MPI_Fortran_COMPILER", mpifc.v, None)) >>
                \o mpiexec_probe(s, e)
           ELSE << Ok(cmake_cache_entry("ENABLE_MPI", "OFF", None)) >>)

cuda_block(s) ==
    << Ok("# CUDA Support\n"),
       Ok(cmake_cache_entry("ENABLE_CUDA", IF s.cuda THEN "ON" ELSE "OFF", None)),
       Ok(cmake_cache_entry("ENABLE_OPENMP", IF s.openmp THEN "ON" ELSE "OFF", None)) >>

host_config_footer ==
    << Ok("##################################\n"),
       Ok("# end spack generated host-config\n"),
       Ok("##################################\n") >>

\* the cfg.write statements of create_host_config, in program order
host_config_body(s, e, cmake_exe) ==
    host_config_header(s, e, cmake_exe) \o shared_block(s) \o tests_block(s)
        \o core_block(s) \o mpi_block(s, e) \o cuda_block(s) \o host_config_footer

\* create_host_config with the file opened before cmake is looked up
create_host_config_open_first(s, e, fs) ==
    LET cmake_exe == cmake_lookup(s, e)
    IN IF ~cmake_exe.ok
          THEN [files |-> open_w(fs, host_cfg_fname(s, e)), outcome |-> cmake_exe.v,
                path |-> NoPath, handle |-> "open"]
          ELSE Emit(fs, host_cfg_fname(s, e), host_config_body(s, e, cmake_exe.v))

\* the outcome of one call of create_host_config on the file system fs
create_host_config_result(s, e, fs) ==
    LET cmake_exe == cmake_lookup(s, e)
    IN IF ~cmake_exe.ok
          THEN [files |-> fs, outcome |-> cmake_exe.v, path |-> NoPath, handle |-> "none"]
          ELSE Emit(fs, host_cfg_fname(s, e), host_config_body(s, e, cmake_exe.v))

\* ------------------------------------------------------------------ makefile_inc

makefile_header(s, e) ==
    << Ok("##################################\n"),
       Ok("# spack generated make.inc\n"),
       Ok("##################################\n"),
       Ok("# " \o sys_type(s, e) \o "-" \o s.compiler \o "\n"),
       Ok("##################################\n\n"),
       Ok("#######\n"),
       Ok("# using " \o s.compiler \o " compiler spec\n"),
       Ok("#######\n\n") >>

makefile_compilers(s, e) ==
    LET mpicxx == SpecGet(s, "mpi", "mpicxx")
    IN << Ok("# c compiler used by spack\n"),
          Ok(make_entry("CC", e.SPACK_CC)),
          Ok("# cpp compiler used by spack\n"),
          LookupThen(mpicxx, make_entry("CXX", mpicxx.v)),
          Ok("# fortran compiler used by spack\n"),
          Ok(make_entry("FC", e.f_compiler)),
          LookupThen(mpicxx, make_entry("CC", mpicxx.v)),
          Ok(make_entry("LINKER", "nvcc")) >>

\* the compile flags with the host-compiler binding written before the standard flag
makefile_cxx_flags_ccbin_first(s) ==
    LET lapack == SpecGet(s, "netlib-lapack", "prefix")
        blas == SpecGet(s, "blas", "prefix")
        umpire == SpecGet(s, "umpire", "prefix")
        raja == SpecGet(s, "raja", "prefix")
        proj == SpecGet(s, "proj", "prefix")
        mpicxx == SpecGet(s, "mpi", "mpicxx")
    IN << Ok("EXTRA_CXX_FLAGS = "),
          LookupThen(lapack, make_inc_entry(lapack.v)),
          LookupThen(blas, make_inc_entry(blas.v)),
          LookupThen(umpire, make_inc_entry(umpire.v)),
          LookupThen(raja, make_inc_entry(raja.v)),
          LookupThen(proj, make_inc_entry(proj.v)),
          Ok(" -DSW4_USE_UMPIRE=1 -DSW4_RAJA_VERSION=7"),
          LookupThen(mpicxx, " -ccbin " \o mpicxx.v),
          Ok(" -std=c++11"),
          LookupThen(mpicxx, " -Xcompiler \"-fopenmp\""),
          Ok("\n") >>

makefile_cxx_flags(s) ==
    LET lapack == SpecGet(s, "netlib-lapack", "prefix")
        blas == SpecGet(s, "blas", "prefix")
        umpire == SpecGet(s, "umpire", "prefix")
        raja == SpecGet(s, "raja", "prefix")
        proj == SpecGet(s, "proj", "prefix")
        mpicxx == SpecGet(s, "mpi", "mpicxx")
    IN << Ok("EXTRA_CXX_FLAGS = "),
          LookupThen(lapack, make_inc_entry(lapack.v)),
          LookupThen(blas, make_inc_entry(blas.v)),
          LookupThen(umpire, make_inc_entry(umpire.v)),
          LookupThen(raja, make_inc_entry(raja.v)),
          LookupThen(proj, make_inc_entry(proj.v)),
          Ok(" -DSW4_USE_UMPIRE=1 -DSW4_RAJA_VERSION=7"),
          Ok(" -std=c++11"),
          LookupThen(mpicxx, " -ccbin " \o mpicxx.v),
          LookupThen(mpicxx, " -Xcompiler \"-fopenmp\""),
          Ok("\n") >>

makefile_link_flags(s) ==
    LET lapack == SpecGet(s, "netlib-lapack", "prefix")
        blas == SpecGet(s, "blas", "prefix")
        umpire == SpecGet(s, "umpire", "prefix")
        raja == SpecGet(s, "raja", "prefix")
        proj == SpecGet(s, "proj", "prefix")
    IN << Ok("EXTRA_LINK_FLAGS = "),
          LookupThen(lapack, make_lib_entry(lapack.v)),
          LookupThen(blas, make_lib_entry(blas.v)),
          LookupThen(umpire, make_lib_entry(umpire.v)),
          LookupThen(raja, make_lib_entry(raja.v)),
          LookupThen(proj, make_lib_entry(proj.v)),
          Ok("\n") >>

makefile_footer ==
    << Ok("##################################\n"),
       Ok("# end spack generated make.inc\n"),
       Ok("##################################\n") >>

\* the cfg.write statements of makefile_inc, in program order
makefile_body(s, e) ==
    makefile_header(s, e) \o makefile_compilers(s, e) \o makefile_cxx_flags(s)
        \o makefile_link_flags(s) \o makefile_footer

\* the outcome of one call of makefile_inc on the file system fs
makefile_inc_result(s, e, fs) ==
    Emit(fs, make_cfg_fname(s, e), makefile_body(s, e))

\* ------------------------------------------------------------------ state machine

SpecValues ==
    [shared : BOOLEAN, mpi : BOOLEAN, cuda : BOOLEAN, test : BOOLEAN, openmp : BOOLEAN,
     cmake_variant : BOOLEAN, cmake : Versions \cup {NoDep},
     architecture : Architectures, compiler : Compilers]

EnvValues ==
    [SPACK_CC : {"/usr/bin/gcc"}, SPACK_CXX : {"/usr/bin/g++"},
     f_compiler : {"/usr/bin/gfortran"},
     SYS_TYPE : SysTypes \cup {None}, hostname : Hosts,
     cmake_on_path : BOOLEAN, mpiexec_isfile : BOOLEAN]

Init ==
    /\ spec \in SpecValues
    /\ env \in EnvValues
    /\ files = << >>
    /\ call = NoCall
    /\ inst = NotStarted

create_host_config ==
    LET r == create_host_config_result(spec, env, files)
    IN /\ files' = r.files
       /\ call' = [op |-> "create_host_config", outcome |-> r.outcome,
                   path |-> r.path, handle |-> r.handle,
                   again |-> (call.op = "create_host_config")]
       /\ UNCHANGED <<spec, env, inst>>

makefile_inc ==
    LET r == makefile_inc_result(spec, env, files)
    IN /\ files' = r.files
       /\ call' = [op |-> "makefile_inc", outcome |-> r.outcome,
                   path |-> r.path, handle |-> r.handle,
                   again |-> (call.op = "makefile_inc")]
       /\ UNCHANGED <<spec, env, inst>>

\* between calls, cmake is installed on or removed from the search path
PathChange ==
    /\ env' = [env EXCEPT !.cmake_on_path = ~@]
    /\ call' = NoCall
    /\ UNCHANGED <<spec, files, inst>>

\* between calls, the MPI installation gains or loses its bin/mpiexec
MpiexecChange ==
    /\ env' = [env EXCEPT !.mpiexec_isfile = ~@]
    /\ call' = NoCall
    /\ UNCHANGED <<spec, files, inst>>

Next ==
    \/ create_host_config
    \/ makefile_inc
    \/ PathChange
    \/ MpiexecChange

Spec == Init /\ [][Next]_vars

\* ------------------------------------------------------------------ reading the output

CacheNames ==
    {"CMAKE_C_COMPILER", "CMAKE_CXX_COMPILER", "BUILD_SHARED_LIBS", "ENABLE_TESTS",
     "LAPACK_DIR", "BLAS_DIR", "UMPIRE_DIR", "ENABLE_MPI", "MPI_C_COMPILER",
     "MPI_CXX_COMPILER", "MPI_Fortran_COMPILER", "MPIEXEC", "MPIEXEC_EXECUTABLE",
     "ENABLE_CUDA", "ENABLE_OPENMP"}

MpiNames ==
    {"ENABLE_MPI", "MPI_C_COMPILER", "MPI_CXX_COMPILER", "MPI_Fortran_COMPILER",
     "MPIEXEC", "MPIEXEC_EXECUTABLE"}

DepNames == {"proj", "blas", "netlib-lapack", "umpire", "raja", "mpi", "cmake"}

mpiexe_bin == join_path(DepAttr("mpi", "prefix.bin"), "mpiexec")

\* every value a cache entry can carry
CacheValues ==
    {"ON", "OFF", None, "/usr/bin/gcc", "/usr/bin/g++", mpiexe_bin}
        \cup {Prefix(d) : d \in DepNames}
        \cup {DepAttr("mpi", a) : a \in {"mpicc", "mpicxx", "mpifc"}}

\* the lines that set the cache entry called n, as the emitter formats them
EntryLines ==
    [n \in CacheNames |->
        {cmake_cache_entry(n, v, t) : v \in CacheValues, t \in {"BOOL", "PATH"}}]

\* how many lines of a file set the cache entry n
Count(content, n) == Cardinality({i \in DOMAIN content : content[i] \in EntryLines[n]})

\* the file has a line setting n to v
Has(content, n, v) == \E i \in DOMAIN content : content[i] = cmake_cache_entry(n, v, None)

Lines(content) == {content[i] : i \in DOMAIN content}

OnOff(b) == IF b THEN "ON" ELSE "OFF"

HostCalled == call.op = "create_host_config"
MakeCalled == call.op = "makefile_inc"

\* the call got as far as opening its output file
Opened == call.handle # "none"

HostFile == files[host_cfg_fname(spec, env)]
MakeFile == files[make_cfg_fname(spec, env)]

\* ------------------------------------------------------------------ claims

\* C1: with the mpi flag false, the host-config holds exactly one MPI-related cache
\* entry, ENABLE_MPI "OFF", and no MPI_*_COMPILER, MPIEXEC or MPIEXEC_EXECUTABLE
\* entry, whatever the other flags, the cmake version and the mpiexec file are.
C1_MpiOffOnlyEnableMpi ==
    (HostCalled /\ Opened /\ ~spec.mpi) =>
        /\ Count(HostFile, "ENABLE_MPI") = 1
        /\ Has(HostFile, "ENABLE_MPI", "OFF")
        /\ \A n \in MpiNames \ {"ENABLE_MPI"} : Count(HostFile, n) = 0

C1_Witness ==
    /\ HostCalled /\ call.outcome = "returned"
    /\ ~spec.mpi /\ env.mpiexec_isfile /\ spec.cmake = <<3, 10>>

\* C2: within one generation pass no cache-entry name is emitted more than once; in
\* particular UMPIRE_DIR appears exactly once in the output of create_host_config.
C2_NoDuplicateEntryName ==
    (HostCalled /\ call.outcome = "returned") =>
        /\ \A n \in CacheNames : Count(HostFile, n) <= 1
        /\ Count(HostFile, "UMPIRE_DIR") = 1

\* C3: in every terminal state of an emitter call, whether it returned a path or
\* ended in an error raised after the file was opened, the file handle is closed.
C3_HandleReleased == (HostCalled \/ MakeCalled) => call.handle # "open"

\* C4: when cmake is not on the search path and no externally managed cmake is
\* selected, create_host_config ends in the tool-not-found error, returns no path
\* and leaves the file system as it was: no file is created or overwritten.
C4_NoCmakeNoFile ==
    [][(call'.op = "create_host_config" /\ ~spec.cmake_variant /\ ~env.cmake_on_path) =>
          /\ call'.outcome = "RuntimeError"
          /\ call'.path = NoPath
          /\ call'.handle = "none"
          /\ files' = files]_vars

C4_Witness ==
    /\ HostCalled /\ call.outcome = "RuntimeError"
    /\ ~spec.cmake_variant /\ ~env.cmake_on_path
    /\ host_cfg_fname(spec, env) \in DOMAIN files
    /\ Len(HostFile) > 0

\* the dependencies makefile_inc looks up in the spec
MakeReferenced == {"netlib-lapack", "blas", "umpire", "raja", "proj", "mpi"}

\* the assignments and flag fragments a missing value would be formatted into
MissingFragments ==
    {make_inc_entry(v) : v \in {None, ""}}
        \cup {make_lib_entry(v) : v \in {None, ""}}
        \cup {make_entry(n, v) : n \in {"CC", "CXX", "LINKER"}, v \in {None, ""}}
        \cup {" -ccbin " \o v : v \in {None, ""}}

\* C5: when a dependency makefile_inc references is absent from the spec (mpi
\* without the mpi flag, raja without the cuda flag), the call ends in the
\* missing-dependency error (KeyError) and returns no path, and nothing built
\* from a missing value is in the file.
C5_MissingDependencyRaises ==
    (MakeCalled /\ ~(MakeReferenced \subseteq Dependencies(spec))) =>
        /\ call.outcome = "KeyError"
        /\ call.path = NoPath
        /\ Lines(MakeFile) \cap MissingFragments = {}

C5_Witness ==
    /\ MakeCalled /\ call.outcome = "KeyError"
    /\ spec.mpi /\ ~spec.cuda
    /\ make_inc_entry(Prefix("umpire")) \in Lines(MakeFile)

\* the host-config a configuration requires: banner, every entry, closing banner
HostComplete(content) ==
    /\ Len(content) >= 8
    /\ SubSeq(content, 1, 3) = << "##################################\n",
                                  "# spack generated host-config\n",
                                  "##################################\n" >>
    /\ SubSeq(content, Len(content) - 2, Len(content))
          = << "##################################\n",
               "# end spack generated host-config\n",
               "##################################\n" >>
    /\ Has(content, "CMAKE_C_COMPILER", env.SPACK_CC)
    /\ Has(content, "CMAKE_CXX_COMPILER", env.SPACK_CXX)
    /\ Has(content, "BUILD_SHARED_LIBS", OnOff(spec.shared))
    /\ Has(content, "ENABLE_TESTS", OnOff(spec.test))
    /\ Has(content, "LAPACK_DIR", Prefix("netlib-lapack"))
    /\ Has(content, "BLAS_DIR", Prefix("blas"))
    /\ Has(content, "UMPIRE_DIR", Prefix("umpire"))
    /\ Has(content, "ENABLE_MPI", OnOff(spec.mpi))
    /\ spec.mpi => /\ Has(content, "MPI_C_COMPILER", DepAttr("mpi", "mpicc"))
                   /\ Has(content, "MPI_CXX_COMPILER", DepAttr("mpi", "mpicxx"))
                   /\ Has(content, "MPI_Fortran_COMPILER", DepAttr("mpi", "mpifc"))
    /\ (spec.mpi /\ env.mpiexec_isfile) =>
           Count(content, "MPIEXEC") + Count(content, "MPIEXEC_EXECUTABLE") >= 1
    /\ Has(content, "ENABLE_CUDA", OnOff(spec.cuda))
    /\ Has(content, "ENABLE_OPENMP", OnOff(spec.openmp))

\* the make.inc a configuration requires: banner, every assignment, closing banner
MakeComplete(content) ==
    /\ Len(content) >= 8
    /\ SubSeq(content, 1, 3) = << "##################################\n",
                                  "# spack generated make.inc\n",
                                  "##################################\n" >>
    /\ SubSeq(content, Len(content) - 2, Len(content))
          = << "##################################\n",
               "# end spack generated make.inc\n",
               "##################################\n" >>
    /\ make_entry("CXX", DepAttr("mpi", "mpicxx")) \in Lines(content)
    /\ make_entry("CC", DepAttr("mpi", "mpicxx")) \in Lines(content)
    /\ make_entry("LINKER", "nvcc") \in Lines(content)
    /\ "EXTRA_CXX_FLAGS = " \in Lines(content)
    /\ "EXTRA_LINK_FLAGS = " \in Lines(content)
    /\ \A d \in {"netlib-lapack", "blas", "umpire", "raja", "proj"} :
          /\ make_inc_entry(Prefix(d)) \in Lines(content)
          /\ make_lib_entry(Prefix(d)) \in Lines(content)

\* C6: an emitter call either returns the path of a closed file that holds the
\* opening banner, every entry the configuration requires and the closing banner,
\* or it raises and returns no path.
C6_NoPartialSuccess ==
    /\ HostCalled =>
          \/ /\ call.outcome = "returned"
             /\ call.path = abspath(host_cfg_fname(spec, env))
             /\ call.handle = "closed"
             /\ HostComplete(HostFile)
          \/ /\ call.outcome \in {"RuntimeError", "KeyError"}
             /\ call.path = NoPath
    /\ MakeCalled =>
          \/ /\ call.outcome = "returned"
             /\ call.path = abspath(make_cfg_fname(spec, env))
             /\ call.handle = "closed"
             /\ MakeComplete(MakeFile)
          \/ /\ call.outcome \in {"RuntimeError", "KeyError"}
             /\ call.path = NoPath

C6_Witness ==
    /\ MakeCalled /\ call.outcome = "returned" /\ call.path # NoPath
    /\ call.handle = "closed"
    /\ MakeComplete(MakeFile)

\* the name the MPI executable entry is to carry: MPIEXEC_EXECUTABLE for a cmake
\* version of at least 3.10, MPIEXEC otherwise
MpiexecName(v) ==
    IF v # NoDep /\ 100 * v[1] + v[2] >= 310 THEN "MPIEXEC_EXECUTABLE" ELSE "MPIEXEC"

\* C7: with the mpi flag true and an mpiexec file under the MPI prefix's bin,
\* the host-config holds exactly one MPI-executable entry, named
\* MPIEXEC_EXECUTABLE when the cmake version is at least 3.10 and MPIEXEC
\* otherwise, and never both names.
C7_OneMpiexecEntry ==
    (HostCalled /\ Opened /\ spec.mpi /\ env.mpiexec_isfile) =>
        /\ Count(HostFile, MpiexecName(spec.cmake)) = 1
        /\ Count(HostFile, "MPIEXEC") + Count(HostFile, "MPIEXEC_EXECUTABLE") = 1
        /\ Has(HostFile, MpiexecName(spec.cmake), mpiexe_bin)

\* C8: without a bin/mpiexec file under the MPI prefix the host-config holds
\* neither an MPIEXEC nor an MPIEXEC_EXECUTABLE entry, for every cmake version and
\* for none, and the call completes with the ENABLE_MPI and MPI_*_COMPILER
\* entries present.
C8_NoMpiexecNoEntry ==
    (HostCalled /\ Opened /\ spec.mpi /\ ~env.mpiexec_isfile) =>
        /\ call.outcome = "returned"
        /\ Count(HostFile, "MPIEXEC") = 0
        /\ Count(HostFile, "MPIEXEC_EXECUTABLE") = 0
        /\ Has(HostFile, "ENABLE_MPI", "ON")
        /\ Has(HostFile, "MPI_C_COMPILER", DepAttr("mpi", "mpicc"))
        /\ Has(HostFile, "MPI_CXX_COMPILER", DepAttr("mpi", "mpicxx"))
        /\ Has(HostFile, "MPI_Fortran_COMPILER", DepAttr("mpi", "mpifc"))

C8_Witness ==
    /\ HostCalled /\ call.outcome = "returned"
    /\ spec.mpi /\ ~env.mpiexec_isfile /\ spec.cmake = NoDep

\* the form a cache entry line is to have
CacheLineForm(name, value, type) ==
    "set(" \o name \o " \"" \o value \o "\" CACHE " \o type \o " \"\")\n\n"

\* C9: an entry formatted without an explicit type has CACHE type BOOL exactly
\* when its value is "ON" or "OFF" and PATH otherwise, and its line has the form
\* set(<NAME> "<VALUE>" CACHE <TYPE> "") followed by a blank line.
C9_EntryTypeAndForm ==
    (HostCalled /\ Opened) =>
        \A i \in DOMAIN HostFile : \A n \in CacheNames, v \in CacheValues :
            HostFile[i] = cmake_cache_entry(n, v, None) =>
                HostFile[i] = CacheLineForm(n, v, IF v \in {"ON", "OFF"} THEN "BOOL"
                                                                        ELSE "PATH")

\* C10: a second call of the same emitter, right after the first and in the same
\* configuration, leaves every file exactly as the first call left it: the file
\* is overwritten, nothing is appended.
C10_Idempotent == [][call'.again => files' = files]_vars

C10_Witness ==
    /\ HostCalled /\ call.again /\ call.outcome = "returned"
    /\ HostComplete(HostFile)

\* the texts of a sequence of writes, as they stand in the file
RECURSIVE Join(_)
Join(texts) == IF texts = << >> THEN "" ELSE Head(texts) \o Join(Tail(texts))

\* where the EXTRA_CXX_FLAGS line starts in a make.inc, 0 when it was not begun
CxxFlagsStart(content) ==
    IF \E i \in DOMAIN content : content[i] = "EXTRA_CXX_FLAGS = "
        THEN CHOOSE i \in DOMAIN content : content[i] = "EXTRA_CXX_FLAGS = "
        ELSE 0

\* where that line's newline is, 0 when the line was not finished
CxxFlagsEnd(content) ==
    LET i == CxxFlagsStart(content)
    IN IF i > 0 /\ \E j \in (i + 1)..Len(content) : content[j] = "\n"
          THEN CHOOSE j \in (i + 1)..Len(content) :
                  content[j] = "\n" /\ \A k \in (i + 1)..(j - 1) : content[k] # "\n"
          ELSE 0

\* the EXTRA_CXX_FLAGS line of a make.inc that holds it whole
CxxFlagsLine(content) ==
    Join(SubSeq(content, CxxFlagsStart(content), CxxFlagsEnd(content)))

\* the -ccbin fragments a make.inc can hold
CcbinFragments == {" -ccbin " \o v : v \in {DepAttr("mpi", "mpicxx"), None, ""}}

\* C11: the EXTRA_CXX_FLAGS line is, in this order, the include fragments of
\* lapack, blas, the memory pool, the portability layer and projection, the macro
\* flags, the C++ standard flag, the -ccbin {mpicxx} fragment and the OpenMP flag;
\* the -ccbin fragment is in the line if and only if the mpi flag is enabled.
C11_CxxFlagsOrder ==
    (MakeCalled /\ CxxFlagsEnd(MakeFile) > 0) =>
        /\ CxxFlagsLine(MakeFile) =
              "EXTRA_CXX_FLAGS = "
                 \o " -I/opt/netlib-lapack/include/"
                 \o " -I/opt/blas/include/"
                 \o " -I/opt/umpire/include/"
                 \o " -I/opt/raja/include/"
                 \o " -I/opt/proj/include/"
                 \o " -DSW4_USE_UMPIRE=1 -DSW4_RAJA_VERSION=7"
                 \o " -std=c++11"
                 \o (IF spec.mpi THEN " -ccbin /opt/mpi/bin/mpicxx" ELSE "")
                 \o " -Xcompiler \"-fopenmp\""
                 \o "\n"
        /\ (Lines(MakeFile) \cap CcbinFragments # {}) <=> spec.mpi

C11_Witness ==
    /\ MakeCalled /\ call.outcome = "returned"
    /\ CxxFlagsEnd(MakeFile) > 0
    /\ " -ccbin /opt/mpi/bin/mpicxx" \in Lines(MakeFile)

\* ------------------------------------------------------------------ install

\* install(src, dst): the file at the absolute path src is copied into directory dst
install_file(fs, src, dst) ==
    LET f == CHOOSE f \in DOMAIN fs : abspath(f) = src
    IN (join_path(dst, f) :> fs[f]) @@ fs

\* what an emitter call leaves in the call record
CallRecord(op, r) ==
    [op |-> op, outcome |-> r.outcome, path |-> r.path, handle |-> r.handle,
     again |-> (call.op = op)]

\* install() with the host-config copied to the prefix as soon as it is written
install_host_cfg_copy_early ==
    /\ inst.pc = "start"
    /\ LET r == create_host_config_result(spec, env, files)
       IN /\ files' = IF r.outcome = "returned"
                         THEN install_file(r.files, r.path, prefix)
                         ELSE r.files
          /\ call' = CallRecord("create_host_config", r)
          /\ inst' = IF r.outcome = "returned"
                        THEN [inst EXCEPT !.pc = "host_cfg", !.host_cfg_fname = r.path]
                        ELSE [inst EXCEPT !.pc = "raised"]
    /\ UNCHANGED <<spec, env>>

\* host_cfg_fname = self.create_host_config(spec, prefix): an exception ends install()
install_host_cfg ==
    /\ inst.pc = "start"
    /\ LET r == create_host_config_result(spec, env, files)
       IN /\ files' = r.files
          /\ call' = CallRecord("create_host_config", r)
          /\ inst' = IF r.outcome = "returned"
                        THEN [inst EXCEPT !.pc = "host_cfg", !.host_cfg_fname = r.path]
                        ELSE [inst EXCEPT !.pc = "raised"]
    /\ UNCHANGED <<spec, env>>

\* make_cfg_fname = self.makefile_inc(spec, prefix): an exception ends install()
install_make_cfg ==
    /\ inst.pc = "host_cfg"
    /\ LET r == makefile_inc_result(spec, env, files)
       IN /\ files' = r.files
          /\ call' = CallRecord("makefile_inc", r)
          /\ inst' = IF r.outcome = "returned"
                        THEN [inst EXCEPT !.pc = "make_cfg", !.make_cfg_fname = r.path]
                        ELSE [inst EXCEPT !.pc = "raised"]
    /\ UNCHANGED <<spec, env>>

\* mkdirp(prefix); install(make_cfg_fname, prefix); install(host_cfg_fname, prefix)
install_to_prefix ==
    /\ inst.pc = "make_cfg"
    /\ files' = install_file(install_file(files, inst.make_cfg_fname, prefix),
                             inst.host_cfg_fname, prefix)
    /\ inst' = [inst EXCEPT !.pc = "in_prefix"]
    /\ UNCHANGED <<spec, env, call>>

\* install(host_cfg_fname, env["SPACK_DEBUG_LOG_DIR"]); install(make_cfg_fname, ...)
install_to_log_dir ==
    /\ inst.pc = "in_prefix"
    /\ files' = install_file(install_file(files, inst.host_cfg_fname, debug_log_dir),
                             inst.make_cfg_fname, debug_log_dir)
    /\ inst' = [inst EXCEPT !.pc = "done"]
    /\ UNCHANGED <<spec, env, call>>

NextInstall ==
    \/ install_host_cfg
    \/ install_make_cfg
    \/ install_to_prefix
    \/ install_to_log_dir

SpecInstall == Init /\ [][NextInstall]_vars

\* the copies install() can make, in the prefix and in the debug log directory
InstalledCopies ==
    {join_path(d, f) : d \in {prefix, debug_log_dir},
                       f \in {host_cfg_fname(spec, env), make_cfg_fname(spec, env)}}
        \cap DOMAIN files

InBuildDir(f) == f \in DOMAIN files

\* C13: in install the host-config emitter has returned before the Makefile
\* emitter starts, and files are copied to the prefix and the debug log directory
\* only after both emitters returned a path: when either raises nothing is copied,
\* and a host-config the first emitter wrote stays in the build directory.
C13_InstallOrder ==
    /\ InBuildDir(make_cfg_fname(spec, env)) =>
          /\ inst.host_cfg_fname = abspath(host_cfg_fname(spec, env))
          /\ InBuildDir(host_cfg_fname(spec, env))
          /\ HostComplete(HostFile)
    /\ InstalledCopies # {} =>
          /\ inst.pc \in {"in_prefix", "done"}
          /\ inst.host_cfg_fname = abspath(host_cfg_fname(spec, env))
          /\ inst.make_cfg_fname = abspath(make_cfg_fname(spec, env))
          /\ HostComplete(HostFile) /\ MakeComplete(MakeFile)
    /\ inst.pc = "raised" =>
          /\ InstalledCopies = {}
          /\ call.outcome \in {"RuntimeError", "KeyError"}
          /\ inst.host_cfg_fname # NoPath =>
                InBuildDir(host_cfg_fname(spec, env)) /\ HostComplete(HostFile)
    /\ inst.pc = "done" =>
          \A d \in {prefix, debug_log_dir} :
              /\ InBuildDir(join_path(d, host_cfg_fname(spec, env)))
              /\ InBuildDir(join_path(d, make_cfg_fname(spec, env)))

C13_Witness ==
    /\ inst.pc = "raised"
    /\ MakeCalled /\ call.outcome = "KeyError"
    /\ inst.host_cfg_fname = abspath(host_cfg_fname(spec, env))
    /\ HostComplete(HostFile)
    /\ InstalledCopies = {}

\* ------------------------------------------------------------------ build requests

\* host names, platform overrides and compilers of the build requests
RequestHosts == {"n1", "n1-x"}
RequestSysTypes == {"x-linux", None}
RequestCompilers == {"gcc@8.1.0", "clang@9.0.0"}

\* the three components an output file name is derived from
Request(s, e) == << e.hostname, sys_type(s, e), s.compiler >>

InitRequests ==
    /\ spec \in [shared : {TRUE}, mpi : BOOLEAN, cuda : BOOLEAN, test : {FALSE},
                 openmp : {FALSE}, cmake_variant : {FALSE}, cmake : {NoDep},
                 architecture : Architectures, compiler : RequestCompilers]
    /\ env \in [SPACK_CC : {"/usr/bin/gcc"}, SPACK_CXX : {"/usr/bin/g++"},
                f_compiler : {"/usr/bin/gfortran"},
                SYS_TYPE : RequestSysTypes, hostname : RequestHosts,
                cmake_on_path : BOOLEAN, mpiexec_isfile : {FALSE}]
    /\ files = << >>
    /\ call = NoCall
    /\ inst = NotStarted

\* the next build request, from some host, platform and compiler, runs
\* create_host_config in its own, new spack-build directory
request_host_config ==
    \E h \in RequestHosts, t \in RequestSysTypes, c \in RequestCompilers :
        LET s == [spec EXCEPT !.compiler = c]
            e == [env EXCEPT !.hostname = h, !.SYS_TYPE = t]
            r == create_host_config_result(s, e, << >>)
        IN /\ spec' = s
           /\ env' = e
           /\ files' = r.files
           /\ call' = CallRecord("create_host_config", r)
           /\ UNCHANGED inst

\* the next build request runs makefile_inc in its own, new spack-build directory
request_makefile_inc ==
    \E h \in RequestHosts, t \in RequestSysTypes, c \in RequestCompilers :
        LET s == [spec EXCEPT !.compiler = c]
            e == [env EXCEPT !.hostname = h, !.SYS_TYPE = t]
            r == makefile_inc_result(s, e, << >>)
        IN /\ spec' = s
           /\ env' = e
           /\ files' = r.files
           /\ call' = CallRecord("makefile_inc", r)
           /\ UNCHANGED inst

NextRequests ==
    \/ request_host_config
    \/ request_makefile_inc

SpecRequests == InitRequests /\ [][NextRequests]_vars

\* C12: the output file name is an injective function of host name, platform
\* identifier and compiler: two requests that differ in any of the three never
\* get the same file name from the same emitter, and a CMake file never shares
\* its name with a Makefile include.
C12_FilenameInjective ==
    [][(/\ call.path # NoPath
        /\ call'.path # NoPath
        /\ (call.op # call'.op \/ Request(spec, env) # Request(spec, env)'))
          => call'.path # call.path]_vars

====
